---- MODULE Spec2Model ----
(***************************************************************************)
(* auth_service: issuance and rotation of access/refresh token pairs.      *)
(*                                                                         *)
(* The state is the relational store (tables users and tokens), the wall   *)
(* clock, the RefreshTokens requests that are between two storage calls,   *)
(* the token pairs handed out in 200 responses, and the last response.     *)
(* GenerateTokensHandler makes one storage call and is one action; a       *)
(* RefreshTokensHandler invocation is one action per storage call, each    *)
(* taking with it the handler code that runs up to the next storage call.  *)
(* Time is counted in whole seconds, as the iat/exp claims are.            *)
(***************************************************************************)
EXTENDS Integers, Sequences, FiniteSets, TLC

\* ---------------------------------------------------------------- bounds
\* Refresh tokens the service may generate in one behaviour.
MaxTokens == 3

\* ------------------------------------------------------------- constants
\* accessTokenExpiry = 15 * time.Minute, in seconds.
AccessTokenExpiry == 900
\* INTERVAL '30 days', in seconds.
RefreshTokenExpiry == 2592000

StatusOK == 200
StatusBadRequest == 400
StatusUnauthorized == 401
StatusInternalServerError == 500

\* cfg.JWTSecret, and a key the service does not sign with.
JWTSecret == "secret"
ForeignSecret == "not-the-secret"

\* --------------------------------------------------------------- domains
\* Rows of table users at start: id (a UUID) and email.
InitialUsers == {"u1"}
\* A syntactically valid UUID that is the id of no row of users.
UnknownUser == "u0"
ValidUUIDs == InitialUsers \cup {UnknownUser}
\* What a client may send as the user_id query parameter: absent (""),
\* not a UUID, or a UUID.
UserIDParams == {"", "not-a-uuid"} \cup ValidUUIDs
\* Transport-level remote addresses (r.RemoteAddr).
Addrs == {"ip1", "ip2"}
\* Slots of concurrently handled RefreshTokens requests.
Slots == {1}
\* The instants the clock shows: the start, a second later, and the instant
\* at which an access token signed at the start expires.
Instants == {0, 1, AccessTokenExpiry}

Email(u) == <<"mail", u>>

\* A parser that takes any non-empty string for a UUID.
ParseUUIDLenient(userID) == userID /= ""

\* uuid.Parse(userID) returns no error.
ParseUUID(userID) == userID \in ValidUUIDs

\* ------------------------------------------------------- token service
\* A byte string is written as the sequence of its runs: <<c, k>> is the
\* byte c repeated k > 0 times, and no two adjacent runs have the same byte.
\* Byte 0 is NUL; the other bytes are printable characters.
Run(c, k) == <<c, k>>
EmptyString == <<>>

RECURSIVE StrLen(_)
StrLen(str) == IF str = <<>> THEN 0 ELSE str[1][2] + StrLen(Tail(str))

\* a followed by b.
Concat(a, b) ==
    IF a = <<>> THEN b
    ELSE IF b = <<>> THEN a
    ELSE IF a[Len(a)][1] = b[1][1]
    THEN SubSeq(a, 1, Len(a) - 1)
             \o <<Run(b[1][1], a[Len(a)][2] + b[1][2])>> \o Tail(b)
    ELSE a \o b

\* The first k bytes of str.
RECURSIVE Take(_, _)
Take(str, k) ==
    IF k = 0 \/ str = <<>> THEN <<>>
    ELSE IF str[1][2] >= k THEN <<Run(str[1][1], k)>>
    ELSE <<str[1]>> \o Take(Tail(str), k - str[1][2])

\* len(uuid.New().String()), and the length of its base64 encoding.
UUIDTextLen == 36
Base64Len == 4 * (UUIDTextLen \div 3)
\* The bytes of the password that bcrypt's key schedule reads.
BcryptKeyLen == 72

\* base64.StdEncoding.EncodeToString of the text of UUID n: characters
\* that tell the UUIDs apart, none of them NUL.
Base64StdEncode(n) == <<Run(n, Base64Len)>>
\* A refresh-token string the service never generated: the empty string.
GarbageRefresh == EmptyString

\* A key schedule that reads the first eight bytes of the password only.
ExpandKeyFirst8(password) == Take(Concat(password, <<Run(0, 1)>>), 8)

\* The key bcrypt sets Blowfish up with: the password and a trailing NUL,
\* read cyclically for BcryptKeyLen bytes.
RECURSIVE Cycle(_, _)
Cycle(ckey, k) ==
    IF StrLen(ckey) >= k THEN Take(ckey, k)
    ELSE Cycle(Concat(ckey, ckey), k)
ExpandKey(password) == Cycle(Concat(password, <<Run(0, 1)>>), BcryptKeyLen)

\* A hash that keeps the password as it is.
BcryptHashPlain(pw, s) == [salt |-> s, digest |-> pw]

\* bcrypt digest of password pw under salt s: determined by the salt and
\* the expanded key, and determining them.
BcryptHash(pw, s) == [salt |-> s, digest |-> ExpandKey(pw)]
\* The empty string in the place of a hash.
NoHash == [salt |-> 0, digest |-> EmptyString]

\* A comparison that takes any token for any hash.
CompareRefreshTokenAny(hashedToken, refreshToken) == TRUE

\* bcrypt.CompareHashAndPassword: hash the password again under the salt of
\* the stored hash and compare. TRUE stands for a nil error.
CompareRefreshToken(hashedToken, refreshToken) ==
    /\ hashedToken /= NoHash
    /\ BcryptHash(refreshToken, hashedToken.salt) = hashedToken

\* A generator that hashes another string than the token it returns.
GenerateRefreshTokenAndHashOfOther(n) ==
    LET encodedToken == Base64StdEncode(n)
    IN  [token |-> encodedToken, hash |-> BcryptHash(GarbageRefresh, n)]

\* GenerateRefreshTokenAndHash with uuid.New() and the salt both drawn
\* fresh, numbered n.
GenerateRefreshTokenAndHash(n) ==
    LET encodedToken == Base64StdEncode(n)
    IN  [token |-> encodedToken, hash |-> BcryptHash(encodedToken, n)]

HMACFamily == {"HS256", "HS384", "HS512"}

\* A signer whose tokens live as long as a refresh-token record.
GenerateAccessTokenFor30Days(userID, clientIP, jwtSecret, refreshHash, t) ==
    [parsable |-> TRUE, alg |-> "HS512", key |-> jwtSecret, sub |-> userID,
     ip |-> clientIP, refresh_hash |-> refreshHash, iat |-> t,
     exp |-> t + RefreshTokenExpiry]

\* A signer that leaves the refresh_hash claim out.
GenerateAccessTokenWithoutHash(userID, clientIP, jwtSecret, refreshHash, t) ==
    [parsable |-> TRUE, alg |-> "HS512", key |-> jwtSecret, sub |-> userID,
     ip |-> clientIP, refresh_hash |-> NoHash, iat |-> t,
     exp |-> t + AccessTokenExpiry]

\* A signed JWT: header alg, signing key, and the claims.
GenerateAccessToken(userID, clientIP, jwtSecret, refreshHash, t) ==
    [parsable     |-> TRUE,
     alg          |-> "HS512",
     key          |-> jwtSecret,
     sub          |-> userID,
     ip           |-> clientIP,
     refresh_hash |-> refreshHash,
     iat          |-> t,
     exp          |-> t + AccessTokenExpiry]

ValidationFailure ==
    [ok |-> FALSE, userID |-> "", clientIP |-> "", refreshHash |-> NoHash]

\* A validation that does not look at the exp claim.
ValidateAccessTokenNoExpiry(accessToken, jwtSecret, t) ==
    IF ~accessToken.parsable THEN ValidationFailure
    ELSE IF accessToken.alg \notin HMACFamily THEN ValidationFailure
    ELSE IF accessToken.key /= jwtSecret THEN ValidationFailure
    ELSE IF accessToken.sub = "" THEN ValidationFailure
    ELSE IF accessToken.ip = "" THEN ValidationFailure
    ELSE IF accessToken.refresh_hash = NoHash THEN ValidationFailure
    ELSE [ok |-> TRUE, userID |-> accessToken.sub, clientIP |-> accessToken.ip,
          refreshHash |-> accessToken.refresh_hash]

\* A validation whose key function hands the secret out for any alg.
ValidateAccessTokenAnyAlg(accessToken, jwtSecret, t) ==
    IF ~accessToken.parsable THEN ValidationFailure
    ELSE IF accessToken.key /= jwtSecret THEN ValidationFailure
    ELSE IF ~(t < accessToken.exp) THEN ValidationFailure
    ELSE IF accessToken.sub = "" THEN ValidationFailure
    ELSE IF accessToken.ip = "" THEN ValidationFailure
    ELSE IF accessToken.refresh_hash = NoHash THEN ValidationFailure
    ELSE [ok |-> TRUE, userID |-> accessToken.sub, clientIP |-> accessToken.ip,
          refreshHash |-> accessToken.refresh_hash]

\* ValidateAccessToken at time t: jwt.Parse (segments, key function,
\* signature, exp), then the three claims.
ValidateAccessToken(accessToken, jwtSecret, t) ==
    IF ~accessToken.parsable THEN ValidationFailure
    ELSE IF accessToken.alg \notin HMACFamily THEN ValidationFailure
    ELSE IF accessToken.key /= jwtSecret THEN ValidationFailure
    ELSE IF ~(t < accessToken.exp) THEN ValidationFailure
    ELSE IF accessToken.sub = "" THEN ValidationFailure
    ELSE IF accessToken.ip = "" THEN ValidationFailure
    ELSE IF accessToken.refresh_hash = NoHash THEN ValidationFailure
    ELSE [ok |-> TRUE, userID |-> accessToken.sub, clientIP |-> accessToken.ip,
          refreshHash |-> accessToken.refresh_hash]

\* The string "" in the place of an access token.
NoAccess ==
    [parsable |-> FALSE, alg |-> "", key |-> "", sub |-> "", ip |-> "",
     refresh_hash |-> NoHash, iat |-> 0, exp |-> 0]

\* Access tokens no GenerateTokens/RefreshTokens response ever carried.
TemplateAccess ==
    GenerateAccessToken("u1", "ip1", JWTSecret,
                        GenerateRefreshTokenAndHash(1).hash, 0)
GarbageAccess == [NoAccess EXCEPT !.alg = "invalid_token"]
ForgedAccess == [TemplateAccess EXCEPT !.key = ForeignSecret,
                                       !.exp = 100 * AccessTokenExpiry]
NonHMACAccess == [TemplateAccess EXCEPT !.alg = "none",
                                        !.exp = 100 * AccessTokenExpiry]
NoSubAccess == [TemplateAccess EXCEPT !.sub = "",
                                      !.exp = 100 * AccessTokenExpiry]
NoIPAccess == [TemplateAccess EXCEPT !.ip = "",
                                     !.exp = 100 * AccessTokenExpiry]
NoRefreshHashAccess == [TemplateAccess EXCEPT !.refresh_hash = NoHash,
                                              !.exp = 100 * AccessTokenExpiry]
BadAccessTokens ==
    {GarbageAccess, ForgedAccess, NonHMACAccess, NoSubAccess, NoIPAccess,
     NoRefreshHashAccess}

\* ------------------------------------------------------------- storage
\* A row of table tokens (the id column, which no query reads, left out).
TokenRow(userID, hashedToken, clientIP, t) ==
    [user_id            |-> userID,
     refresh_token_hash |-> hashedToken,
     ip_address         |-> clientIP,
     created_at         |-> t,
     expires_at         |-> t + RefreshTokenExpiry]

RowsOf(tbl, userID) == {r \in tbl : r.user_id = userID}

\* A plain INSERT, on a table without the UNIQUE constraint.
SaveRefreshTokenInsert(tbl, usrs, userID, hashedToken, clientIP, t, fail) ==
    IF fail \/ userID \notin usrs
    THEN [err |-> TRUE, tokens |-> tbl]
    ELSE [err |-> FALSE,
          tokens |-> tbl \cup {TokenRow(userID, hashedToken, clientIP, t)}]

\* The upsert on a table without the foreign key on users(id).
SaveRefreshTokenNoForeignKey(tbl, usrs, userID, hash, clientIP, t, fail) ==
    IF fail
    THEN [err |-> TRUE, tokens |-> tbl]
    ELSE [err |-> FALSE,
          tokens |-> {r \in tbl : r.user_id /= userID} \cup
                     {TokenRow(userID, hash, clientIP, t)}]

\* An upsert that is applied although its error is reported.
SaveRefreshTokenWritesThenFails(tbl, usrs, userID, hash, clientIP, t, fail) ==
    IF userID \notin usrs
    THEN [err |-> TRUE, tokens |-> tbl]
    ELSE [err |-> fail,
          tokens |-> {r \in tbl : r.user_id /= userID} \cup
                     {TokenRow(userID, hash, clientIP, t)}]

\* INSERT ... ON CONFLICT (user_id) DO UPDATE SET ...; the foreign key on
\* users(id) rejects a user_id that is no row of users. fail: the
\* statement did not reach the database.
SaveRefreshToken(tbl, usrs, userID, hashedToken, clientIP, t, fail) ==
    IF fail \/ userID \notin usrs
    THEN [err |-> TRUE, tokens |-> tbl]
    ELSE IF RowsOf(tbl, userID) /= {}
    THEN [err |-> FALSE,
          tokens |-> {IF r.user_id = userID
                      THEN TokenRow(userID, hashedToken, clientIP, t)
                      ELSE r : r \in tbl}]
    ELSE [err |-> FALSE,
          tokens |-> tbl \cup {TokenRow(userID, hashedToken, clientIP, t)}]

\* A read in which no row found is an empty hash and no error.
GetRefreshTokenOrEmpty(tbl, userID) ==
    IF {r \in tbl : r.user_id = userID} = {} THEN {NoHash}
    ELSE {r.refresh_token_hash : r \in {q \in tbl : q.user_id = userID}}

\* SELECT refresh_token_hash FROM tokens WHERE user_id = $1: the hashes of
\* the rows found; QueryRow().Scan fails with no row.
GetRefreshToken(tbl, userID) ==
    {r.refresh_token_hash : r \in RowsOf(tbl, userID)}

\* An UPDATE without its WHERE clause.
UpdateRefreshTokenAllRows(tbl, userID, hashedToken, clientIP, t, fail) ==
    IF fail
    THEN [err |-> TRUE, tokens |-> tbl]
    ELSE [err |-> FALSE,
          tokens |-> {TokenRow(r.user_id, hashedToken, clientIP, t) :
                         r \in tbl}]

\* An update that writes the hash and leaves the address of the row.
UpdateRefreshTokenHashOnly(tbl, userID, hashedToken, clientIP, t, fail) ==
    IF fail
    THEN [err |-> TRUE, tokens |-> tbl]
    ELSE [err |-> FALSE,
          tokens |-> {IF r.user_id = userID
                      THEN TokenRow(userID, hashedToken, r.ip_address, t)
                      ELSE r : r \in tbl}]

\* An update that is applied although its error is reported.
UpdateRefreshTokenWritesThenFails(tbl, userID, hashedToken, clientIP, t, fail) ==
    [err |-> fail,
     tokens |-> {IF r.user_id = userID
                 THEN TokenRow(userID, hashedToken, clientIP, t)
                 ELSE r : r \in tbl}]

\* UPDATE tokens SET ... WHERE user_id = $1: no row updated is no error.
UpdateRefreshToken(tbl, userID, hashedToken, clientIP, t, fail) ==
    IF fail
    THEN [err |-> TRUE, tokens |-> tbl]
    ELSE [err |-> FALSE,
          tokens |-> {IF r.user_id = userID
                      THEN TokenRow(userID, hashedToken, clientIP, t)
                      ELSE r : r \in tbl}]

\* SELECT ip_address FROM tokens WHERE user_id = $1.
GetLastIP(tbl, userID) == {r.ip_address : r \in RowsOf(tbl, userID)}

\* SELECT email FROM users WHERE id = $1.
GetUserEmail(usrs, userID) == {Email(u) : u \in usrs \cap {userID}}

\* ----------------------------------------------------------------- state
VARIABLES
    users,     \* ids of the rows of table users
    tokens,    \* rows of table tokens
    now,       \* the clock, in seconds
    nextToken, \* number of the next UUID/salt to be drawn
    issued,    \* the (access, refresh) pairs of the 200 responses
    inflight,  \* per slot, a RefreshTokens request between storage calls
    last,      \* the last response written, with its request
    boot,      \* the process: how far main has come, and how it ended
    call       \* a call of the token service made on its own

vars == <<users, tokens, now, nextToken, issued, inflight, last, boot, call>>
serviceVars == <<users, tokens, now, nextToken, issued, inflight, last>>


\* A slot that holds no request.
Idle ==
    [pc |-> "idle", access |-> NoAccess, refresh |-> GarbageRefresh,
     remote |-> "", storedToken |-> NoHash, lastIP |-> "",
     warned |-> FALSE,
     emailed |-> FALSE, newAccess |-> NoAccess,
     newRefresh |-> GarbageRefresh, newHash |-> NoHash, ops |-> <<>>]

\* A response: the handler, the status and body written, the request it
\* answers and what the handler did for it.
Response(kind, status, body, accessToken, refreshToken, userID, cur) ==
    [kind |-> kind, status |-> status, body |-> body,
     access |-> accessToken, refresh |-> refreshToken,
     user_id |-> userID,
     reqAccess |-> cur.access, reqRefresh |-> cur.refresh,
     remote |-> cur.remote, storedToken |-> cur.storedToken,
     lastIP |-> cur.lastIP, newHash |-> cur.newHash,
     warned |-> cur.warned, emailed |-> cur.emailed, ops |-> cur.ops]

\* http.Error(w, body, status).
Error(kind, status, body, userID, cur) ==
    Response(kind, status, body, NoAccess, GarbageRefresh, userID,
             [Idle EXCEPT !.ops = cur.ops, !.newHash = cur.newHash,
                          !.warned = cur.warned, !.emailed = cur.emailed])

\* No response was written by the step just taken.
NoResponse == Error("none", 0, "", "", Idle)

\* The one step of a handler that fails, if any: the handler returns at
\* its first failure.
GenerateFaults == {"none", "hash", "db", "sign", "encode"}
BeginFaults == {"none", "body", "db"}
ReadFaults == {"none", "db", "sign", "hash"}
UpdateFaults == {"none", "db", "encode"}

\* --------------------------------------------------------------- startup
\* What the process meets when it starts: the outcome of MustLoad, the env
\* tag of the configuration, and the outcomes of InitDB, migrate.New, m.Up
\* and http.ListenAndServe.
ConfigOutcomes ==
    {"ok", "CONFIG_PATH is not set", "config file is not exists",
     "can not read config file"}
Envs == {"local", "dev", "prod", "stage"}
DBOutcomes == {"ok", "unable to parse database config",
               "failed to connect to database"}
MigrateNewOutcomes == {"ok", "error"}
MigrateUpOutcomes == {"nil", "ErrNoChange", "error"}
ListenOutcomes == {"serving", "error"}
Worlds ==
    [config : ConfigOutcomes, env : Envs, db : DBOutcomes,
     migrateNew : MigrateNewOutcomes, migrateUp : MigrateUpOutcomes,
     listen : ListenOutcomes]

\* setupLogger: the logger for the three known env tags, nil for any other.
NilLogger == [format |-> "nil", level |-> "nil"]
setupLogger(env) ==
    CASE env = "local" -> [format |-> "text", level |-> "debug"]
      [] env = "dev"   -> [format |-> "json", level |-> "debug"]
      [] env = "prod"  -> [format |-> "json", level |-> "info"]
      [] OTHER         -> NilLogger

\* The process before main runs.
StartBoot(world) ==
    [pc |-> "MustLoad", world |-> world, log |-> NilLogger, steps |-> <<>>,
     logged |-> <<>>, pool |-> "none", routes |-> FALSE, exit |-> 0]

\* main has begun step and goes on to pc.
Step(b, step, pc) == [b EXCEPT !.pc = pc, !.steps = Append(b.steps, step)]
\* log.Error / log.Info with a logger that is not nil.
Log(b, msg) == [b EXCEPT !.logged = Append(b.logged, msg)]
\* The process ends with exit code code; the deferred pool.Close() has run
\* unless os.Exit ended it.
Exit(b, code) ==
    [b EXCEPT !.pc = "exited", !.exit = code,
              !.pool = IF b.pool = "open" /\ code /= 1 THEN "closed"
                                                       ELSE b.pool]

\* config.MustLoad: log.Fatal (exit code 1) on any failure.
MainMustLoad ==
    /\ boot.pc = "MustLoad"
    /\ boot' = IF boot.world.config = "ok"
               THEN Step(boot, "MustLoad", "setupLogger")
               ELSE Exit(Step(boot, "MustLoad", "MustLoad"), 1)

\* main lines 61-64: setupLogger and the first log.Info, which panics (exit
\* code 2) on a nil logger.
MainSetupLogger ==
    LET log == setupLogger(boot.world.env)
        b == [Step(boot, "setupLogger", "InitDB") EXCEPT !.log = log]
    IN  /\ boot.pc = "setupLogger"
        /\ boot' = IF log = NilLogger
                   THEN Exit(b, 2)
                   ELSE Log(b, "Starting auth_service...")

\* An InitDB whose failure main logs and then goes on.
MainInitDBGoesOn ==
    LET b == Step(boot, "InitDB", "InitAndRunMigrations")
    IN  /\ boot.pc = "InitDB"
        /\ boot' = IF boot.world.db = "ok"
                   THEN [Log(b, "Successfully connected to database")
                            EXCEPT !.pool = "open"]
                   ELSE Log(b, "Failed to connect to database: %v")

\* main lines 67-72 with InitDB: the pool, or log.Error and os.Exit(1).
MainInitDB ==
    LET b == Step(boot, "InitDB", "InitAndRunMigrations")
    IN  /\ boot.pc = "InitDB"
        /\ boot' =
             CASE boot.world.db = "ok" ->
                    [Log(b, "Successfully connected to database")
                        EXCEPT !.pool = "open"]
               [] boot.world.db = "unable to parse database config" ->
                    Exit(Log(b, "Failed to connect to database: %v"), 1)
               [] OTHER ->
                    Exit(Log(Log(b, "Unable to connect to database"),
                             "Failed to connect to database: %v"), 1)

\* InitAndRunMigrations and ApplyMigrations: after an error of migrate.New
\* m is nil and m.Up() panics (exit code 2); an error of m.Up() other than
\* ErrNoChange is logged.
MainInitAndRunMigrations ==
    LET b == Step(boot, "InitAndRunMigrations", "NewPostgresStorage")
        up == IF boot.world.migrateUp = "error"
              THEN Log(b, "Failed to apply migrations")
              ELSE b
    IN  /\ boot.pc = "InitAndRunMigrations"
        /\ boot' =
             IF boot.world.migrateNew = "error"
             THEN Exit(Log(b, "Failed to initialize migrations"), 2)
             ELSE Log(Log(up, "Migrations applied successfully"),
                      "Migrations completed successfully")

\* postgres.NewPostgresStorage(pool).
MainNewPostgresStorage ==
    /\ boot.pc = "NewPostgresStorage"
    /\ boot' = Step(boot, "NewPostgresStorage", "HandleFunc")

\* The two http.HandleFunc calls.
MainHandleFunc ==
    /\ boot.pc = "HandleFunc"
    /\ boot' = [Step(boot, "HandleFunc", "ListenAndServe")
                   EXCEPT !.routes = TRUE]

\* http.ListenAndServe: it serves, or it returns an error, which is logged,
\* and main returns.
MainListenAndServe ==
    LET b == Log(Step(boot, "ListenAndServe", "serving"),
                 "Auth service is up and running")
    IN  /\ boot.pc = "ListenAndServe"
        /\ boot' = IF boot.world.listen = "serving"
                   THEN b
                   ELSE Exit(Log(b, "Failed to start HTTP server"), 0)

\* The steps of a startup that came to serve, in their order.
StartupOrder ==
    <<"MustLoad", "setupLogger", "InitDB", "InitAndRunMigrations",
      "NewPostgresStorage", "HandleFunc", "ListenAndServe">>

\* The process while it serves requests.
Serving ==
    [pc |-> "serving",
     world |-> [config |-> "ok", env |-> "local", db |-> "ok",
                migrateNew |-> "ok", migrateUp |-> "ErrNoChange",
                listen |-> "serving"],
     log |-> setupLogger("local"), steps |-> StartupOrder,
     logged |-> <<>>, pool |-> "open", routes |-> TRUE, exit |-> 0]

\* No call of the token service on its own.
NoCall == [op |-> "none"]

Init ==
    /\ boot = Serving
    /\ call = NoCall
    /\ users = InitialUsers
    /\ tokens = {}
    /\ now = 0
    /\ nextToken = 1
    /\ issued = {}
    /\ inflight = [s \in Slots |-> Idle]
    /\ last = NoResponse

\* ---------------------------------------------------- GenerateTokens
\* GET /auth/tokens?user_id=userID from remoteAddr. fault: bcrypt, the
\* database, the signing or the response encoding fails.
GenerateTokensHandler(userID, remoteAddr, fault) ==
    LET clientIP == remoteAddr
        gen == GenerateRefreshTokenAndHash(nextToken)
        saved == SaveRefreshToken(tokens, users, userID, gen.hash, clientIP,
                                  now, fault = "db")
        accessToken == GenerateAccessToken(userID, clientIP, JWTSecret,
                                           gen.hash, now)
        req == [Idle EXCEPT !.remote = remoteAddr]
        called == [req EXCEPT !.ops = <<"SaveRefreshToken">>,
                              !.newHash = gen.hash]
    IN  /\ UNCHANGED <<users, now, inflight>>
        /\ IF userID = ""
           THEN /\ last' = Error("generate", StatusBadRequest,
                                 "user_id is required", userID, req)
                /\ UNCHANGED <<tokens, nextToken, issued>>
           ELSE IF ~ParseUUID(userID)
           THEN /\ last' = Error("generate", StatusBadRequest,
                                 "invalid user_id", userID, req)
                /\ UNCHANGED <<tokens, nextToken, issued>>
           ELSE IF fault = "hash"
           THEN /\ last' = Error("generate", StatusInternalServerError,
                                 "failed to generate refresh token", userID,
                                 req)
                /\ UNCHANGED <<tokens, nextToken, issued>>
           ELSE /\ nextToken <= MaxTokens
                /\ nextToken' = IF saved.err THEN nextToken
                                            ELSE nextToken + 1
                /\ tokens' = saved.tokens
                /\ IF saved.err
                   THEN /\ last' = Error("generate",
                                         StatusInternalServerError,
                                         "failed to save refresh token",
                                         userID, called)
                        /\ UNCHANGED issued
                   ELSE IF fault = "sign"
                   THEN /\ last' = Error("generate",
                                         StatusInternalServerError,
                                         "failed to generate access token",
                                         userID, called)
                        /\ UNCHANGED issued
                   ELSE IF fault = "encode"
                   THEN /\ last' = Error("generate",
                                         StatusInternalServerError,
                                         "failed to encode response",
                                         userID, called)
                        /\ UNCHANGED issued
                   ELSE /\ last' = Response("generate", StatusOK, "json",
                                            accessToken, gen.token, userID,
                                            called)
                        /\ issued' = issued \cup
                               {[access |-> accessToken,
                                 refresh |-> gen.token]}

\* ----------------------------------------------------- RefreshTokens
\* A handler that writes its response and goes on where it was.
ReturnMissing(s, resp) == last' = resp /\ inflight' = inflight

\* The handler's return: the response is written and the slot is free.
Return(s, resp) ==
    /\ last' = resp
    /\ inflight' = [inflight EXCEPT ![s] = Idle]

\* A handler that goes past the email lookup to the new pair's update.
GotoSkippingEmail(s, cur, pc) ==
    /\ last' = NoResponse
    /\ inflight' = [inflight EXCEPT ![s] =
           [cur EXCEPT !.pc = IF pc = "getUserEmail" THEN "update" ELSE pc]]

\* The handler goes on to its next storage call.
Goto(s, cur, pc) ==
    /\ last' = NoResponse
    /\ inflight' = [inflight EXCEPT ![s] = [cur EXCEPT !.pc = pc]]

\* Claims in which the client address is the remote address of the request.
ClaimsWithRemoteAddr(cur) ==
    [ValidateAccessToken(cur.access, JWTSecret, cur.access.iat)
        EXCEPT !.clientIP = cur.remote]

\* The claims of the request's access token, as line 119 extracted them.
Claims(cur) == ValidateAccessToken(cur.access, JWTSecret, cur.access.iat)

\* Lines 161-174: the new access token, bound to the refresh_hash claim of
\* the presented one, then the new refresh token and its hash.
IssueNewPair(s, cur, fault) ==
    LET v == Claims(cur)
        newAccessToken == GenerateAccessToken(v.userID, v.clientIP,
                                              JWTSecret, v.refreshHash, now)
        gen == GenerateRefreshTokenAndHash(nextToken)
    IN  IF fault = "sign"
        THEN /\ Return(s, Error("refresh", StatusInternalServerError,
                                "failed to generate access token",
                                v.userID, cur))
             /\ UNCHANGED nextToken
        ELSE IF fault = "hash"
        THEN /\ Return(s, Error("refresh", StatusInternalServerError,
                                "failed to generate refresh token",
                                v.userID, cur))
             /\ UNCHANGED nextToken
        ELSE /\ nextToken <= MaxTokens
             /\ nextToken' = nextToken + 1
             /\ Goto(s, [cur EXCEPT !.newAccess = newAccessToken,
                                    !.newRefresh = gen.token,
                                    !.newHash = gen.hash], "update")

\* POST /auth/refresh with body {access_token, refresh_token}, up to the
\* comparison of the stored hash (lines 110-138). fault "body": the body is
\* not JSON. No line of the handler reads r.RemoteAddr: the address the
\* request came from is drawn where the 200 response is recorded.
RefreshTokensHandler(s, accessToken, refreshToken, fault) ==
    LET req == [Idle EXCEPT !.access = accessToken,
                            !.refresh = refreshToken]
        v == ValidateAccessToken(accessToken, JWTSecret, now)
        read == [req EXCEPT !.ops = <<"GetRefreshToken">>]
        found == GetRefreshToken(tokens, v.userID)
    IN  /\ inflight[s].pc = "idle"
        /\ UNCHANGED <<users, tokens, now, nextToken, issued>>
        /\ IF fault = "body"
           THEN Return(s, Error("refresh", StatusBadRequest,
                                "invalid request body", "", Idle))
           ELSE IF ~v.ok
           THEN Return(s, Error("refresh", StatusUnauthorized,
                                "invalid access token", "", req))
           ELSE IF fault = "db" \/ found = {}
           THEN Return(s, Error("refresh", StatusUnauthorized,
                                "refresh token not found", v.userID, read))
           ELSE \E storedToken \in found :
                  LET cur == [read EXCEPT !.storedToken = storedToken]
                  IN  IF ~CompareRefreshToken(storedToken, refreshToken)
                      THEN Return(s, Error("refresh", StatusUnauthorized,
                                           "invalid refresh token",
                                           v.userID, cur))
                      ELSE Goto(s, cur, "getLastIP")

\* Lines 140-174: GetLastIP, the comparison with the ip claim and, when
\* they are equal, the new pair.
RefreshGetLastIP(s, fault) ==
    LET cur0 == inflight[s]
        v == Claims(cur0)
        cur == [cur0 EXCEPT !.ops = Append(cur0.ops, "GetLastIP")]
        found == GetLastIP(tokens, v.userID)
    IN  /\ cur0.pc = "getLastIP"
        /\ UNCHANGED <<users, tokens, now, issued>>
        /\ IF fault = "db" \/ found = {}
           THEN /\ Return(s, Error("refresh", StatusInternalServerError,
                                   "failed to retrieve last IP", v.userID,
                                   cur))
                /\ UNCHANGED nextToken
           ELSE \E lastIP \in found :
                  IF v.clientIP /= lastIP
                  THEN /\ Goto(s, [cur EXCEPT !.lastIP = lastIP,
                                              !.warned = TRUE],
                               "getUserEmail")
                       /\ UNCHANGED nextToken
                  ELSE IssueNewPair(s, [cur EXCEPT !.lastIP = lastIP],
                                    fault)

\* Lines 150-174: GetUserEmail, the notification stub and the new pair.
RefreshGetUserEmail(s, fault) ==
    LET cur0 == inflight[s]
        v == Claims(cur0)
        cur == [cur0 EXCEPT !.ops = Append(cur0.ops, "GetUserEmail")]
        found == GetUserEmail(users, v.userID)
    IN  /\ cur0.pc = "getUserEmail"
        /\ UNCHANGED <<users, tokens, now, issued>>
        /\ IF fault = "db" \/ found = {}
           THEN /\ Return(s, Error("refresh", StatusInternalServerError,
                                   "failed to retrieve user email",
                                   v.userID, cur))
                /\ UNCHANGED nextToken
           ELSE IssueNewPair(s, [cur EXCEPT !.emailed = TRUE], fault)

\* Lines 176-192: UpdateRefreshToken and the response, for the request that
\* came from remoteAddr.
RefreshUpdate(s, remoteAddr, fault) ==
    LET cur0 == inflight[s]
        v == Claims(cur0)
        cur == [cur0 EXCEPT !.ops = Append(cur0.ops, "UpdateRefreshToken"),
                            !.remote = remoteAddr]
        updated == UpdateRefreshToken(tokens, v.userID, cur.newHash,
                                      v.clientIP, now, fault = "db")
    IN  /\ cur0.pc = "update"
        /\ UNCHANGED <<users, now, nextToken>>
        /\ tokens' = updated.tokens
        /\ IF updated.err
           THEN /\ Return(s, Error("refresh", StatusInternalServerError,
                                   "failed to update refresh token",
                                   v.userID, cur))
                /\ UNCHANGED issued
           ELSE IF fault = "encode"
           THEN /\ Return(s, Error("refresh", StatusInternalServerError,
                                   "failed to encode response", v.userID,
                                   cur))
                /\ UNCHANGED issued
           ELSE /\ Return(s, Response("refresh", StatusOK, "json",
                                      cur.newAccess, cur.newRefresh,
                                      v.userID, cur))
                /\ issued' = issued \cup
                       {[access |-> cur.newAccess,
                         refresh |-> cur.newRefresh]}

\* ------------------------------------------------------- environment
\* A deletion of the user on a table tokens without ON DELETE CASCADE.
DeleteUserNoCascade(u) ==
    /\ u \in users
    /\ users' = users \ {u}
    /\ last' = NoResponse
    /\ UNCHANGED <<tokens, now, nextToken, issued, inflight>>

\* The subsystem that owns table users deletes a user; ON DELETE CASCADE
\* deletes the user's row of tokens.
DeleteUser(u) ==
    /\ u \in users
    /\ users' = users \ {u}
    /\ tokens' = {r \in tokens : r.user_id /= u}
    /\ last' = NoResponse
    /\ UNCHANGED <<now, nextToken, issued, inflight>>

\* Time passes.
Advance(t) ==
    /\ now < t
    /\ now' = t
    /\ last' = NoResponse
    /\ UNCHANGED <<users, tokens, nextToken, issued, inflight>>

\* What a client can put in a refresh request: tokens of earlier responses
\* and tokens the service never made.
AccessTokens == {p.access : p \in issued} \cup BadAccessTokens
RefreshTokens == {p.refresh : p \in issued} \cup {GarbageRefresh}

\* The requests and failures that differ in what the handler does: a
\* failure is drawn only for a request that reaches the failing step.
GenerateFaultsFor(userID) ==
    IF ParseUUID(userID) THEN GenerateFaults ELSE {"none"}
BeginAccessFor(fault) ==
    CASE fault = "body" -> {GarbageAccess}
      [] fault = "db"   -> {p.access : p \in issued}
      [] OTHER          -> AccessTokens
BeginRefreshFor(fault) ==
    IF fault = "body" THEN {GarbageRefresh} ELSE RefreshTokens

Next ==
    \/ \E userID \in UserIDParams, remoteAddr \in Addrs :
          \E fault \in GenerateFaultsFor(userID) :
             /\ GenerateTokensHandler(userID, remoteAddr, fault)
             /\ UNCHANGED <<boot, call>>
    \/ \E s \in Slots, fault \in BeginFaults :
          \E accessToken \in BeginAccessFor(fault),
             refreshToken \in BeginRefreshFor(fault) :
             /\ RefreshTokensHandler(s, accessToken, refreshToken, fault)
             /\ UNCHANGED <<boot, call>>
    \/ \E s \in Slots, fault \in ReadFaults :
          RefreshGetLastIP(s, fault) /\ UNCHANGED <<boot, call>>
    \/ \E s \in Slots, fault \in ReadFaults :
          RefreshGetUserEmail(s, fault) /\ UNCHANGED <<boot, call>>
    \/ \E s \in Slots, remoteAddr \in Addrs, fault \in UpdateFaults :
          RefreshUpdate(s, remoteAddr, fault) /\ UNCHANGED <<boot, call>>
    \/ \E u \in InitialUsers : DeleteUser(u) /\ UNCHANGED <<boot, call>>
    \/ \E t \in Instants : Advance(t) /\ UNCHANGED <<boot, call>>

Spec == Init /\ [][Next]_vars

\* The process from its start to the moment it serves or ends.
InitMain ==
    /\ boot \in {StartBoot(world) : world \in Worlds}
    /\ call = NoCall
    /\ users = InitialUsers
    /\ tokens = {}
    /\ now = 0
    /\ nextToken = 1
    /\ issued = {}
    /\ inflight = [s \in Slots |-> Idle]
    /\ last = NoResponse

NextMain ==
    \/ MainMustLoad /\ UNCHANGED <<serviceVars, call>>
    \/ MainSetupLogger /\ UNCHANGED <<serviceVars, call>>
    \/ MainInitDB /\ UNCHANGED <<serviceVars, call>>
    \/ MainInitAndRunMigrations /\ UNCHANGED <<serviceVars, call>>
    \/ MainNewPostgresStorage /\ UNCHANGED <<serviceVars, call>>
    \/ MainHandleFunc /\ UNCHANGED <<serviceVars, call>>
    \/ MainListenAndServe /\ UNCHANGED <<serviceVars, call>>

SpecMain == InitMain /\ [][NextMain]_vars

\* ================================================================ claims
Refreshed == last.kind = "refresh" /\ last.status = StatusOK
Generated == last.kind = "generate" /\ last.status = StatusOK

\* C1 (as claimed): RefreshTokens answers 200 only to an access token and a
\* refresh token that one response handed out together.
C1_OnlyPairsIssuedTogether ==
    Refreshed =>
        [access |-> last.reqAccess, refresh |-> last.reqRefresh] \in issued

\* C2 (as claimed): right after a 200 of RefreshTokens the hash stored for
\* the user verifies against the refresh token just returned and not
\* against the one that was presented, so that presenting the old one
\* again fails the comparison of line 133.
C2_StoredHashRotatedToReturnedToken ==
    Refreshed =>
        /\ RowsOf(tokens, last.user_id) /= {}
        /\ \A r \in RowsOf(tokens, last.user_id) :
              /\ CompareRefreshToken(r.refresh_token_hash, last.refresh)
              /\ ~CompareRefreshToken(r.refresh_token_hash, last.reqRefresh)

\* C3 (as claimed): in every 200 response of GenerateTokens and of
\* RefreshTokens the refresh_hash claim of the returned access token is the
\* hash of the refresh token returned with it.
C3_ReturnedAccessBoundToReturnedRefresh ==
    (Refreshed \/ Generated) =>
        CompareRefreshToken(last.access.refresh_hash, last.refresh)

\* C4 (as claimed): a RefreshTokens request coming from an address other
\* than the one stored for the user still gets 200, and the handler logs
\* "Client IP has changed" and looks the user's email up.
C4_ChangedRemoteAddrIsFlagged ==
    (Refreshed /\ last.remote /= last.lastIP) =>
        (last.warned /\ last.emailed)

\* C5 (as claimed): a RefreshTokens request that presents a pair as it was
\* issued, while the stored record still holds the hash of that refresh
\* token and has not reached its expires_at, is not turned away with 401.
C5_StoredRefreshTokenUsableFor30Days ==
    [][\A s \in Slots, accessToken \in AccessTokens,
         refreshToken \in RefreshTokens :
          ( /\ RefreshTokensHandler(s, accessToken, refreshToken, "none")
            /\ [access |-> accessToken, refresh |-> refreshToken] \in issued
            /\ \E r \in RowsOf(tokens, accessToken.sub) :
                  /\ CompareRefreshToken(r.refresh_token_hash, refreshToken)
                  /\ now < r.expires_at )
          => last'.status /= StatusUnauthorized]_vars

\* C6: the store holds at most one record per user, and right after a
\* GenerateTokens whose save succeeded the user's record is the one that
\* save wrote: its hash, its address, and the expiry counted from its time.
C6_OneRecordPerUserLastSaveWins ==
    /\ \A u \in ValidUUIDs : Cardinality(RowsOf(tokens, u)) <= 1
    /\ Generated =>
          RowsOf(tokens, last.user_id) =
              {[user_id            |-> last.user_id,
                refresh_token_hash |-> last.newHash,
                ip_address         |-> last.remote,
                created_at         |-> now,
                expires_at         |-> now + RefreshTokenExpiry]}

\* A second save for a user, later than the first and from another address.
C6_SecondSaveForUser ==
    /\ Generated
    /\ \E p \in issued : /\ p.access.sub = last.user_id
                         /\ p.access.iat < now
                         /\ p.access.ip /= last.remote

\* C7: GenerateTokens for the id of an existing user, no step failing,
\* answers 200 with an access token and a refresh token that are not empty,
\* and leaves in the store, for that user, one record holding a hash of the
\* returned refresh token and the request's remote address.
C7_GenerateHappyPath ==
    [][\A userID \in ValidUUIDs, remoteAddr \in Addrs :
          (GenerateTokensHandler(userID, remoteAddr, "none")
             /\ userID \in users)
          => /\ last'.kind = "generate"
             /\ last'.status = StatusOK
             /\ last'.access /= NoAccess
             /\ last'.refresh /= GarbageRefresh
             /\ Cardinality(RowsOf(tokens', userID)) = 1
             /\ \A r \in RowsOf(tokens', userID) :
                   /\ CompareRefreshToken(r.refresh_token_hash,
                                          last'.refresh)
                   /\ r.ip_address = remoteAddr]_vars

\* A 200 of GenerateTokens for an existing user, from the second address.
C7_GeneratedForExistingUser ==
    /\ Generated
    /\ last.user_id \in users
    /\ last.remote = "ip2"
    /\ tokens /= {}

\* C8: GenerateTokens for a UUID that is the id of no user answers 500 and
\* returns no token; when the handler got as far as the save, it is the
\* save that failed; the store holds no record for that id.
C8_UnknownUserIsRefused ==
    (last.kind = "generate" /\ last.user_id \in ValidUUIDs
                            /\ last.user_id \notin users)
    => /\ last.status = StatusInternalServerError
       /\ last.access = NoAccess
       /\ last.refresh = GarbageRefresh
       /\ last.ops = <<"SaveRefreshToken">>
             => last.body = "failed to save refresh token"
       /\ RowsOf(tokens, last.user_id) = {}

\* The save for an unknown user was tried and failed.
C8_SaveForUnknownUserFailed ==
    /\ last.kind = "generate"
    /\ last.user_id = UnknownUser
    /\ last.ops = <<"SaveRefreshToken">>
    /\ last.body = "failed to save refresh token"

\* C9: GenerateTokens without user_id answers 400 "user_id is required",
\* with a user_id that is no UUID 400 "invalid user_id"; either way it
\* returns no token, has generated none, and has made no storage call.
C9_BadUserIDIsRejected ==
    (last.kind = "generate" /\ last.user_id \notin ValidUUIDs)
    => /\ last.status = StatusBadRequest
       /\ last.body = IF last.user_id = "" THEN "user_id is required"
                                           ELSE "invalid user_id"
       /\ last.access = NoAccess
       /\ last.refresh = GarbageRefresh
       /\ last.newHash = NoHash
       /\ last.ops = <<>>

\* A user_id that is no UUID was rejected.
C9_InvalidUserIDRejected ==
    /\ last.kind = "generate"
    /\ last.body = "invalid user_id"
    /\ last.user_id = "not-a-uuid"

\* C10: RefreshTokens with an access token that ValidateAccessToken turns
\* down (unparsable, foreign key, non-HMAC alg, expired, a claim missing)
\* answers 401 "invalid access token" whatever the refresh token, and makes
\* no storage call.
C10_InvalidAccessTokenIsRejected ==
    [][\A s \in Slots, fault \in BeginFaults \ {"body"} :
        \A accessToken \in
               {a \in BeginAccessFor(fault) :
                   \/ a \in BadAccessTokens
                   \/ now >= a.iat + AccessTokenExpiry},
           refreshToken \in RefreshTokens :
          RefreshTokensHandler(s, accessToken, refreshToken, fault)
          => /\ last'.kind = "refresh"
             /\ last'.status = StatusUnauthorized
             /\ last'.body = "invalid access token"
             /\ last'.ops = <<>>
             /\ UNCHANGED <<tokens, users, issued, nextToken>>
             /\ inflight'[s] = Idle]_vars

\* An access token was turned down, with no storage call, at a time when
\* the tokens issued at the start have expired and the store holds a record.
C10_ExpiredAccessTokenRejected ==
    /\ last.kind = "refresh"
    /\ last.body = "invalid access token"
    /\ last.ops = <<>>
    /\ tokens /= {}
    /\ now >= AccessTokenExpiry

\* The access tokens of earlier responses that have not expired.
LiveAccessTokens ==
    {a \in {p.access : p \in issued} : now < a.iat + AccessTokenExpiry}

\* C11: RefreshTokens with an unexpired access token of the service and a
\* refresh token that the stored hash of the user was not made from answers
\* 401 "invalid refresh token"; it has read the stored hash and nothing
\* else (no last address, no email), and the store is as it was.
C11_MismatchedRefreshTokenIsRejected ==
    [][\A s \in Slots, accessToken \in LiveAccessTokens,
         refreshToken \in RefreshTokens :
          ( /\ RefreshTokensHandler(s, accessToken, refreshToken, "none")
            /\ \E r \in RowsOf(tokens, accessToken.sub) :
                  r.refresh_token_hash.digest /= ExpandKey(refreshToken) )
          => /\ last'.kind = "refresh"
             /\ last'.status = StatusUnauthorized
             /\ last'.body = "invalid refresh token"
             /\ last'.ops = <<"GetRefreshToken">>
             /\ ~last'.warned /\ ~last'.emailed
             /\ UNCHANGED <<tokens, users, issued, nextToken>>
             /\ inflight'[s] = Idle]_vars

\* A refresh token of an earlier issuance was turned down for a user whose
\* record holds the hash of a later one.
C11_StaleRefreshTokenRejected ==
    /\ last.kind = "refresh"
    /\ last.body = "invalid refresh token"
    /\ last.ops = <<"GetRefreshToken">>
    /\ \E r \in tokens : r.user_id = last.user_id
    /\ Cardinality(issued) >= 2

\* C12: RefreshTokens with an unexpired access token of the service for a
\* user who has no record in the store answers 401 "refresh token not
\* found", and the store is as it was.
C12_NoRecordIsRejected ==
    [][\A s \in Slots, fault \in BeginFaults \ {"body"} :
        \A accessToken \in
               {a \in LiveAccessTokens : RowsOf(tokens, a.sub) = {}},
           refreshToken \in RefreshTokens :
          RefreshTokensHandler(s, accessToken, refreshToken, fault)
          => /\ last'.kind = "refresh"
             /\ last'.status = StatusUnauthorized
             /\ last'.body = "refresh token not found"
             /\ last'.ops = <<"GetRefreshToken">>
             /\ UNCHANGED <<tokens, users, issued, nextToken>>
             /\ inflight'[s] = Idle]_vars

\* A refresh was turned down because the user, whose tokens had been
\* issued, has no record any more.
C12_RecordGoneRejected ==
    /\ last.kind = "refresh"
    /\ last.body = "refresh token not found"
    /\ last.user_id \in InitialUsers
    /\ RowsOf(tokens, last.user_id) = {}
    /\ issued /= {}

\* C13 (as claimed): whichever storage call of a handler fails for want of
\* a connection, the request is answered with 500.
C13_ConnectivityErrorIs500 ==
    [][/\ \A userID \in ValidUUIDs, remoteAddr \in Addrs :
            GenerateTokensHandler(userID, remoteAddr, "db")
            => last'.status = StatusInternalServerError
       /\ \A s \in Slots, accessToken \in LiveAccessTokens,
             refreshToken \in RefreshTokens :
            RefreshTokensHandler(s, accessToken, refreshToken, "db")
            => last'.status = StatusInternalServerError
       /\ \A s \in Slots :
            (RefreshGetLastIP(s, "db") \/ RefreshGetUserEmail(s, "db"))
            => last'.status = StatusInternalServerError
       /\ \A s \in Slots, remoteAddr \in Addrs :
            RefreshUpdate(s, remoteAddr, "db")
            => last'.status = StatusInternalServerError]_vars

\* C14 (as claimed): the tokens of a 200 of RefreshTokens both differ from
\* the tokens that were presented.
C14_RefreshReturnsNewTokens ==
    Refreshed => /\ last.access /= last.reqAccess
                 /\ last.refresh /= last.reqRefresh

\* C20 (as claimed): in a 200 of RefreshTokens the refresh_hash claim of the
\* returned access token is the hash that the request read from the store,
\* and is not the hash of the refresh token returned with it.
C20_NewAccessBoundToPreviousStoredHash ==
    Refreshed => /\ last.access.refresh_hash = last.storedToken
                 /\ last.access.refresh_hash /= last.newHash

\* ------------------------------------------- the token service on its own
\* Arguments of GenerateAccessToken: "" is the empty string, NoHash the
\* empty refresh hash.
SubjectArgs == {"", "u1"}
AddrArgs == {"", "ip1"}
Secrets == {JWTSecret, ForeignSecret}
RefreshHashArgs == {NoHash, GenerateRefreshTokenAndHash(1).hash}
IssueTimes == {0, 1}
\* Seconds between the signing of a token and its validation.
Elapsed == {0, AccessTokenExpiry - 1, AccessTokenExpiry}
\* What reaches ValidateAccessToken in the place of the token signed: the
\* token itself, the same claims signed with another HMAC algorithm, the
\* token with alg "none" or an RSA alg in its header, or a string that is
\* no JWT.
Tampers == {"intact", "HS256", "none", "RS256", "garbage"}
Tamper(accessToken, tamper) ==
    CASE tamper = "intact"  -> accessToken
      [] tamper = "garbage" -> GarbageAccess
      [] OTHER              -> [accessToken EXCEPT !.alg = tamper]

\* ValidateAccessToken applied, elapsed seconds later and with secret, to
\* what GenerateAccessToken signed at t.
CallValidateAccessToken(userID, clientIP, jwtSecret, refreshHash, t, tamper, secret, elapsed) ==
    LET accessToken ==
            Tamper(GenerateAccessToken(userID, clientIP, jwtSecret,
                                       refreshHash, t), tamper)
    IN  call' = [op |-> "ValidateAccessToken", userID |-> userID,
                 clientIP |-> clientIP, jwtSecret |-> jwtSecret,
                 refreshHash |-> refreshHash, t |-> t, tamper |-> tamper,
                 secret |-> secret, elapsed |-> elapsed,
                 result |-> ValidateAccessToken(accessToken, secret,
                                                t + elapsed)]

\* Strings to compare with the hash of raw token x: x itself, another raw
\* token, the empty string, x without its last byte, x with a byte more,
\* and x followed by a NUL byte and by zero, 23 or all bytes of x again.
NUL == <<Run(0, 1)>>
Candidates == {"x", "other", "empty", "shorter", "longer", "x NUL",
               "x NUL x[:23]", "x NUL x"}
Candidate(x, other, kind) ==
    CASE kind = "x"            -> x
      [] kind = "other"        -> other
      [] kind = "empty"        -> EmptyString
      [] kind = "shorter"      -> Take(x, StrLen(x) - 1)
      [] kind = "longer"       -> Concat(x, Take(x, 1))
      [] kind = "x NUL"        -> Concat(x, NUL)
      [] kind = "x NUL x[:23]" -> Concat(Concat(x, NUL), Take(x, 23))
      [] OTHER                 -> Concat(Concat(x, NUL), x)
HasNUL(str) == \E i \in 1..Len(str) : str[i][1] = 0

\* CompareRefreshToken applied to the hash GenerateRefreshTokenAndHash made
\* for raw token number n and to a candidate string.
CallCompareRefreshToken(n, m, kind) ==
    LET pair == GenerateRefreshTokenAndHash(n)
        y == Candidate(pair.token, Base64StdEncode(m), kind)
    IN  call' = [op |-> "CompareRefreshToken", x |-> pair.token, y |-> y,
                 kind |-> kind, hash |-> pair.hash,
                 match |-> CompareRefreshToken(pair.hash, y)]

InitTokens ==
    /\ call = NoCall
    /\ boot = Serving
    /\ users = InitialUsers
    /\ tokens = {}
    /\ now = 0
    /\ nextToken = 1
    /\ issued = {}
    /\ inflight = [s \in Slots |-> Idle]
    /\ last = NoResponse

NextTokens ==
    \/ \E userID \in SubjectArgs, clientIP \in AddrArgs, jwtSecret \in Secrets,
          refreshHash \in RefreshHashArgs, t \in IssueTimes,
          tamper \in Tampers, secret \in Secrets, elapsed \in Elapsed :
          /\ CallValidateAccessToken(userID, clientIP, jwtSecret, refreshHash,
                                     t, tamper, secret, elapsed)
          /\ UNCHANGED <<serviceVars, boot>>
    \/ \E n \in 1..MaxTokens, m \in 1..MaxTokens, kind \in Candidates :
          /\ n /= m
          /\ CallCompareRefreshToken(n, m, kind)
          /\ UNCHANGED <<serviceVars, boot>>

SpecTokens == InitTokens /\ [][NextTokens]_vars

C16_OnlyTheRawTokenMatches ==
    call.op = "CompareRefreshToken" => (call.match <=> call.y = call.x)

\* C16: the comparison with the hash made for raw token X succeeds for X,
\* and fails for every other string that holds no NUL byte.
C16_NoOtherNULFreeStringMatches ==
    call.op = "CompareRefreshToken"
    => /\ call.y = call.x => call.match
       /\ (call.y /= call.x /\ ~HasNUL(call.y)) => ~call.match

\* A string a byte longer than the raw token was compared and refused.
C16_LongerStringRefused ==
    /\ call.op = "CompareRefreshToken"
    /\ call.kind = "longer"
    /\ StrLen(call.y) = StrLen(call.x) + 1
    /\ ~HasNUL(call.y)
    /\ ~call.match

\* C17: applied to a token carrying the claims GenerateAccessToken sets
\* (exp 15 minutes after iat), ValidateAccessToken succeeds exactly when the
\* token is signed with the given secret under an HMAC algorithm, fewer
\* than 15 minutes have passed since it was issued, and sub, ip and
\* refresh_hash are not empty; then it returns the three claims, and in
\* every other case an error and empty values.
C17_ValidatesExactlyLiveSignedCompleteTokens ==
    call.op = "ValidateAccessToken"
    => IF /\ call.tamper \in {"intact", "HS256"}
          /\ call.secret = call.jwtSecret
          /\ call.elapsed < AccessTokenExpiry
          /\ call.userID /= "" /\ call.clientIP /= ""
          /\ call.refreshHash /= NoHash
       THEN call.result = [ok |-> TRUE, userID |-> call.userID,
                           clientIP |-> call.clientIP,
                           refreshHash |-> call.refreshHash]
       ELSE call.result = ValidationFailure

\* A complete token signed with the secret is refused 15 minutes after it
\* was issued.
C17_RefusedAtExpiry ==
    /\ call.op = "ValidateAccessToken"
    /\ call.tamper = "intact" /\ call.secret = call.jwtSecret
    /\ call.userID /= "" /\ call.clientIP /= "" /\ call.refreshHash /= NoHash
    /\ call.elapsed = AccessTokenExpiry
    /\ call.result = ValidationFailure

\* The steps main has begun.
Begun == {boot.steps[i] : i \in 1..Len(boot.steps)}
\* The migration attempt failed with something other than "no pending
\* migrations".
MigrationFailed ==
    /\ "InitAndRunMigrations" \in Begun
    /\ boot.pc /= "InitAndRunMigrations"
    /\ \/ boot.world.migrateNew = "error"
       \/ boot.world.migrateUp = "error"

\* C18: a migration failure other than "no pending migrations", the failure
\* to initialise the migration runner included, is logged and does not end
\* the process: once past the failed migration step the process has logged
\* the failure and is on its way to storage construction, route
\* registration and listening, and it ends only after ListenAndServe.
C18_MigrationFailureIsNotFatal ==
    MigrationFailed
    => /\ \E i \in 1..Len(boot.logged) :
             boot.logged[i] \in {"Failed to initialize migrations",
                                 "Failed to apply migrations"}
       /\ boot.pc = "exited" => "ListenAndServe" \in Begun

\* C19: the steps of main are begun in the order configuration load, logger
\* construction, database connection, migration attempt, storage
\* construction, route registration, listening, so the listener is started
\* only after the first four, with the pool connected; and when the first
\* database connection fails the process has exited with code 1 right
\* there: no migration attempt, no route, no listener.
C19_ListenerStartsLastAndDBFailureExits ==
    /\ \A i \in 1..Len(boot.steps) : boot.steps[i] = StartupOrder[i]
    /\ "ListenAndServe" \in Begun
       => /\ boot.world.config = "ok" /\ boot.log /= NilLogger
          /\ boot.world.db = "ok" /\ boot.pool /= "none"
          /\ boot.routes
    /\ ("InitDB" \in Begun /\ boot.world.db /= "ok")
       => /\ boot.pc = "exited" /\ boot.exit = 1
          /\ boot.steps = SubSeq(StartupOrder, 1, 3)
          /\ ~boot.routes

\* The listener serves after a whole startup.
C19_ListenerServing ==
    /\ boot.pc = "serving"
    /\ boot.steps = StartupOrder
    /\ boot.world.migrateUp = "error"

\* C21 as stated: a RefreshTokens response other than 200 comes with the
\* table of refresh-token records as it was.
C21_NonOKRefreshLeavesStore ==
    [][(last'.kind = "refresh" /\ last'.status /= StatusOK)
       => tokens' = tokens]_vars

\* C21: no step of a RefreshTokens request changes a refresh-token record
\* unless the request answers 200 or fails to encode its response; the
\* request that answers 500 "failed to encode response" has run its
\* UpdateRefreshToken, and nothing undoes it.
C21_OnlyEncodeFailureLeavesAWrite ==
    [][/\ ( /\ \/ \E s \in Slots : inflight'[s] /= inflight[s]
               \/ last'.kind = "refresh"
            /\ last'.status /= StatusOK
            /\ last'.body /= "failed to encode response" )
          => tokens' = tokens
       /\ \A s \in Slots :
            ( /\ inflight[s].pc = "update" /\ inflight'[s] = Idle
              /\ last'.body = "failed to encode response" )
            => /\ last'.status = StatusInternalServerError
               /\ tokens' = UpdateRefreshToken(
                                tokens, inflight[s].access.sub,
                                inflight[s].newHash, inflight[s].access.ip,
                                now, FALSE).tokens]_vars

\* A refresh whose update failed answered 500 while the user has a record.
C21_UpdateFailedRecordKept ==
    /\ last.kind = "refresh"
    /\ last.status = StatusInternalServerError
    /\ last.body = "failed to update refresh token"
    /\ \E r \in RowsOf(tokens, last.user_id) :
          r.refresh_token_hash /= last.newHash

\* C22: GenerateTokens leaves the table as it was when it answers 400 or
\* when the hashing or the save fails; when the signing or the encoding
\* fails after the save it answers 500 having made the one storage call,
\* and the record just saved is the user's only record.
C22_GenerateFailureEffects ==
    [][last'.kind = "generate"
       => /\ last'.status = StatusBadRequest
             => tokens' = tokens /\ last'.ops = <<>>
          /\ last'.body \in {"failed to generate refresh token",
                             "failed to save refresh token"}
             => /\ last'.status = StatusInternalServerError
                /\ tokens' = tokens
          /\ last'.body \in {"failed to generate access token",
                             "failed to encode response"}
             => /\ last'.status = StatusInternalServerError
                /\ last'.ops = <<"SaveRefreshToken">>
                /\ \A r \in tokens : r.refresh_token_hash /= last'.newHash
                /\ \E clientIP \in Addrs :
                      tokens' = {r \in tokens : r.user_id /= last'.user_id}
                                \cup {TokenRow(last'.user_id, last'.newHash,
                                               clientIP, now)}]_vars

\* GenerateTokens failed to encode its response for a user who had a
\* record, and the record it saved is the one stored.
C22_EncodeFailedAfterSave ==
    /\ last.kind = "generate"
    /\ last.body = "failed to encode response"
    /\ issued /= {}
    /\ \E r \in RowsOf(tokens, last.user_id) :
          r.refresh_token_hash = last.newHash

\* C23: a RefreshTokens request that answers 200 has called GetRefreshToken,
\* GetLastIP, GetUserEmail exactly when the ip claim of the presented access
\* token differs from the stored address, and UpdateRefreshToken, each once
\* and in this order; a request refused for its access token has called
\* nothing; a request that returns right after GetUserEmail answers 500.
C23_StorageCallsOfRefresh ==
    /\ Refreshed
       => last.ops = IF last.reqAccess.ip /= last.lastIP
                     THEN <<"GetRefreshToken", "GetLastIP", "GetUserEmail",
                            "UpdateRefreshToken">>
                     ELSE <<"GetRefreshToken", "GetLastIP",
                            "UpdateRefreshToken">>
    /\ (last.kind = "refresh" /\ last.body \in {"invalid request body",
                                                "invalid access token"})
       => last.ops = <<>>
    /\ ( /\ last.kind = "refresh" /\ last.ops /= <<>>
         /\ last.ops[Len(last.ops)] = "GetUserEmail" )
       => last.status = StatusInternalServerError
    /\ last.body = "failed to retrieve user email"
       => last.ops = <<"GetRefreshToken", "GetLastIP", "GetUserEmail">>

\* A refresh from a changed address answered 200 after four storage calls.
C23_RefreshedWithEmailLookup ==
    /\ Refreshed
    /\ last.reqAccess.ip /= last.lastIP
    /\ Len(last.ops) = 4

\* ------------------------------------------- requests handled concurrently
\* Two RefreshTokens requests in flight at once, with GenerateTokens
\* requests and the deletion of the user between their storage calls; no
\* step fails and no time passes.
RaceSlots == {1, 2}

InitRace ==
    /\ boot = Serving
    /\ call = NoCall
    /\ users = InitialUsers
    /\ tokens = {}
    /\ now = 0
    /\ nextToken = 1
    /\ issued = {}
    /\ inflight = [s \in RaceSlots |-> Idle]
    /\ last = NoResponse

NextRace ==
    \/ \E userID \in InitialUsers, remoteAddr \in Addrs :
          /\ GenerateTokensHandler(userID, remoteAddr, "none")
          /\ UNCHANGED <<boot, call>>
    \/ \E s \in RaceSlots, p \in issued, q \in issued :
          /\ RefreshTokensHandler(s, p.access, q.refresh, "none")
          /\ UNCHANGED <<boot, call>>
    \/ \E s \in RaceSlots :
          RefreshGetLastIP(s, "none") /\ UNCHANGED <<boot, call>>
    \/ \E s \in RaceSlots :
          RefreshGetUserEmail(s, "none") /\ UNCHANGED <<boot, call>>
    \/ \E s \in RaceSlots, remoteAddr \in Addrs :
          RefreshUpdate(s, remoteAddr, "none") /\ UNCHANGED <<boot, call>>
    \/ \E u \in InitialUsers : DeleteUser(u) /\ UNCHANGED <<boot, call>>

SpecRace == InitRace /\ [][NextRace]_vars

\* C24: whatever the interleaving of GenerateTokens and RefreshTokens
\* requests, a user has at most one record, and a record that appears or
\* changes in a step is, whole, what one request wrote in that step: user
\* id, hash, address and timestamps of the one SaveRefreshToken or
\* UpdateRefreshToken call.
C24_RecordWrittenWholeByOneRequest ==
    [][/\ \A u \in ValidUUIDs : Cardinality(RowsOf(tokens', u)) <= 1
       /\ \A r \in tokens' \ tokens :
            \/ /\ last'.kind = "generate"
               /\ r = TokenRow(last'.user_id, last'.newHash, last'.remote,
                               now)
            \/ \E s \in RaceSlots :
                  /\ inflight[s].pc = "update"
                  /\ inflight'[s] = Idle
                  /\ r = TokenRow(inflight[s].access.sub,
                                  inflight[s].newHash,
                                  inflight[s].access.ip, now)]_vars

\* Two refresh requests are in flight, one about to update, and a
\* GenerateTokens request has replaced the record the first one read.
C24_GenerateBetweenRefreshSteps ==
    /\ inflight[1].pc = "update"
    /\ inflight[2].pc = "getLastIP"
    /\ \E r \in tokens :
          /\ r.refresh_token_hash /= inflight[1].storedToken
          /\ r.refresh_token_hash = inflight[2].storedToken

\* C25: no two RefreshTokens requests answer 200, one right after the
\* other, for the same presented refresh token.
C25_RefreshTokenRedeemedOnce ==
    [][~( /\ Refreshed /\ Refreshed'
          /\ last'.reqRefresh = last.reqRefresh
          /\ last'.refresh /= last.refresh )]_vars

\* C26: when RefreshTokens answers 200 the user's record holds the hash of
\* the refresh token returned.
C26_RefreshedOnlyWithRecordUpdated ==
    Refreshed
    => \E r \in RowsOf(tokens, last.user_id) :
          r.refresh_token_hash = last.newHash

\* ------------------------------------------------- the two storages
\* A Go map as the set of its <<key, value>> entries.
MapHas(map, key) == \E e \in map : e[1] = key
MapGet(map, key) == (CHOOSE e \in map : e[1] = key)[2]
MapPut(map, key, value) == {e \in map : e[1] /= key} \cup {<<key, value>>}

\* NewMockStorage() and CreateUser(userID).
NewMockStorage == [users |-> {}, refreshTokens |-> {}, ipAddresses |-> {}]
MockCreateUser(m, userID) ==
    [m EXCEPT !.users = MapPut(m.users, userID, TRUE)]

\* What a storage call returns (with an error the zero value: NoHash is the
\* empty hash string) and the storage it leaves.
Outcome(err, value, store) == [err |-> err, value |-> value, store |-> store]

MockSaveRefreshToken(m, userID, hashedToken, clientIP) ==
    IF ~MapHas(m.users, userID)
    THEN Outcome(TRUE, "", m)
    ELSE Outcome(FALSE, "",
                 [m EXCEPT
                    !.refreshTokens = MapPut(m.refreshTokens, userID,
                                             hashedToken),
                    !.ipAddresses = MapPut(m.ipAddresses, userID, clientIP)])

MockGetRefreshToken(m, userID) ==
    IF ~MapHas(m.users, userID) THEN Outcome(TRUE, NoHash, m)
    ELSE IF ~MapHas(m.refreshTokens, userID) THEN Outcome(TRUE, NoHash, m)
    ELSE Outcome(FALSE, MapGet(m.refreshTokens, userID), m)

MockUpdateRefreshToken(m, userID, hashedToken, clientIP) ==
    IF ~MapHas(m.users, userID)
    THEN Outcome(TRUE, "", m)
    ELSE Outcome(FALSE, "",
                 [m EXCEPT
                    !.refreshTokens = MapPut(m.refreshTokens, userID,
                                             hashedToken),
                    !.ipAddresses = MapPut(m.ipAddresses, userID, clientIP)])

MockGetLastIP(m, userID) ==
    IF ~MapHas(m.users, userID) THEN Outcome(TRUE, "", m)
    ELSE IF ~MapHas(m.ipAddresses, userID) THEN Outcome(TRUE, "", m)
    ELSE Outcome(FALSE, MapGet(m.ipAddresses, userID), m)

\* The same four calls on PostgresStorage, over tables usrs and tbl.
PostgresSaveRefreshToken(tbl, usrs, userID, hashedToken, clientIP, t) ==
    LET saved == SaveRefreshToken(tbl, usrs, userID, hashedToken, clientIP,
                                  t, FALSE)
    IN  Outcome(saved.err, "", saved.tokens)
PostgresGetRefreshToken(tbl, userID) ==
    LET found == GetRefreshToken(tbl, userID)
    IN  IF found = {} THEN Outcome(TRUE, NoHash, tbl)
        ELSE Outcome(FALSE, CHOOSE h \in found : TRUE, tbl)
PostgresUpdateRefreshToken(tbl, userID, hashedToken, clientIP, t) ==
    LET updated == UpdateRefreshToken(tbl, userID, hashedToken, clientIP, t,
                                      FALSE)
    IN  Outcome(updated.err, "", updated.tokens)
PostgresGetLastIP(tbl, userID) ==
    LET found == GetLastIP(tbl, userID)
    IN  IF found = {} THEN Outcome(TRUE, "", tbl)
        ELSE Outcome(FALSE, CHOOSE ip \in found : TRUE, tbl)

\* Hashes handed to the two storages.
StoredHashes == {GenerateRefreshTokenAndHash(n).hash : n \in 1..MaxTokens}

\* One call made on both storages: what each returned, and the storages
\* before it; the tables after it are tokens and call.mock.
BothCalled(op, userID, pg, mock) ==
    /\ tokens' = pg.store
    /\ call' = [op |-> op, userID |-> userID,
                pg |-> [err |-> pg.err, value |-> pg.value],
                fake |-> [err |-> mock.err, value |-> mock.value],
                mock |-> mock.store,
                tokensBefore |-> tokens, mockBefore |-> call.mock]

CallSaveRefreshToken(userID, hashedToken, clientIP) ==
    BothCalled("SaveRefreshToken", userID,
               PostgresSaveRefreshToken(tokens, users, userID, hashedToken,
                                        clientIP, now),
               MockSaveRefreshToken(call.mock, userID, hashedToken, clientIP))

CallGetRefreshToken(userID) ==
    BothCalled("GetRefreshToken", userID,
               PostgresGetRefreshToken(tokens, userID),
               MockGetRefreshToken(call.mock, userID))

CallUpdateRefreshToken(userID, hashedToken, clientIP) ==
    BothCalled("UpdateRefreshToken", userID,
               PostgresUpdateRefreshToken(tokens, userID, hashedToken,
                                          clientIP, now),
               MockUpdateRefreshToken(call.mock, userID, hashedToken,
                                      clientIP))

CallGetLastIP(userID) ==
    BothCalled("GetLastIP", userID,
               PostgresGetLastIP(tokens, userID),
               MockGetLastIP(call.mock, userID))

\* Both storages hold the users of InitialUsers and no record.
InitStorage ==
    /\ boot = Serving
    /\ users = InitialUsers
    /\ tokens = {}
    /\ \E u \in InitialUsers :
          call = [op |-> "none", mock |-> MockCreateUser(NewMockStorage, u)]
    /\ now = 0
    /\ nextToken = 1
    /\ issued = {}
    /\ inflight = [s \in Slots |-> Idle]
    /\ last = NoResponse

NextStorage ==
    \/ \E userID \in ValidUUIDs, hashedToken \in StoredHashes,
          clientIP \in Addrs :
          /\ CallSaveRefreshToken(userID, hashedToken, clientIP)
          /\ UNCHANGED <<users, now, nextToken, issued, inflight, last, boot>>
    \/ \E userID \in ValidUUIDs :
          /\ CallGetRefreshToken(userID)
          /\ UNCHANGED <<users, now, nextToken, issued, inflight, last, boot>>
    \/ \E userID \in ValidUUIDs, hashedToken \in StoredHashes,
          clientIP \in Addrs :
          /\ CallUpdateRefreshToken(userID, hashedToken, clientIP)
          /\ UNCHANGED <<users, now, nextToken, issued, inflight, last, boot>>
    \/ \E userID \in ValidUUIDs :
          /\ CallGetLastIP(userID)
          /\ UNCHANGED <<users, now, nextToken, issued, inflight, last, boot>>

SpecStorage == InitStorage /\ [][NextStorage]_vars

\* C27: an UpdateRefreshToken call for a user who has no record leaves the
\* storage, the relational one and the in-memory one, as it was.
C27_UpdateNeverCreatesARecord ==
    call.op = "UpdateRefreshToken"
    => /\ RowsOf(call.tokensBefore, call.userID) = {}
          => tokens = call.tokensBefore
       /\ ~MapHas(call.mockBefore.refreshTokens, call.userID)
          => call.mock = call.mockBefore

\* C28: each call returns the same error outcome and the same value from
\* the in-memory storage as from the relational one.
C28_MockStorageAnswersAsPostgresStorage ==
    call.op \in {"SaveRefreshToken", "GetRefreshToken", "UpdateRefreshToken",
                 "GetLastIP"}
    => call.fake = call.pg

\* C29: every refresh-token record belongs to a row of table users.
C29_EveryRecordHasItsUser ==
    \A r \in tokens : r.user_id \in users

\* The user who was issued a pair is deleted, and no record is left.
C29_UserDeletedWithRecord ==
    /\ issued /= {}
    /\ users = {}
    /\ tokens = {}

\* The hashes GenerateRefreshTokenAndHash has made so far, the refresh-token
\* hashes stored or embedded in an access token handed out, and the raw
\* refresh tokens handed out.
HashesMade == {GenerateRefreshTokenAndHash(n).hash : n \in 1..(nextToken - 1)}
HashesKept ==
    {r.refresh_token_hash : r \in tokens}
        \cup {p.access.refresh_hash : p \in issued}
RawTokensReturned == {p.refresh : p \in issued}

\* C30: each stored refresh_token_hash and each refresh_hash claim of an
\* access token handed out is a hash GenerateRefreshTokenAndHash made, and
\* bears no raw refresh token that was returned to a client.
C30_OnlyHashesKept ==
    \A h \in HashesKept :
        /\ h \in HashesMade
        /\ h.digest \notin RawTokensReturned

\* A refresh answered 200 while a record is stored and two pairs are out.
C30_HashesKeptAfterRefresh ==
    /\ Refreshed
    /\ tokens /= {}
    /\ Cardinality(HashesKept) >= 2

\* ------------------------------------ GenerateTokens, a step per clock reading
\* GenerateTokensHandler reads the clock twice: the database does at the
\* save (NOW() of the statement), the handler does when it signs the access
\* token. Here the handler is the two steps, and a second may end between
\* them. Slot RefreshSlot holds the RefreshTokens request in flight, slot
\* GenerateSlot the GenerateTokens request between save and signing.
RefreshSlot == 1
GenerateSlot == 2
ClockInstants ==
    {0, 1, AccessTokenExpiry, AccessTokenExpiry + 1, RefreshTokenExpiry}

\* Lines 40-75: the request checks, the refresh token and the save.
GenerateSave(userID, remoteAddr) ==
    LET gen == GenerateRefreshTokenAndHash(nextToken)
        saved == SaveRefreshToken(tokens, users, userID, gen.hash,
                                  remoteAddr, now, FALSE)
        cur == [Idle EXCEPT !.pc = "sign", !.remote = remoteAddr,
                            !.newRefresh = gen.token, !.newHash = gen.hash,
                            !.ops = <<"SaveRefreshToken">>]
    IN  /\ inflight[GenerateSlot].pc = "idle"
        /\ ParseUUID(userID)
        /\ nextToken <= MaxTokens
        /\ UNCHANGED <<users, now, issued>>
        /\ tokens' = saved.tokens
        /\ IF saved.err
           THEN /\ Return(GenerateSlot,
                          Error("generate", StatusInternalServerError,
                                "failed to save refresh token", userID, cur))
                /\ UNCHANGED nextToken
           ELSE /\ nextToken' = nextToken + 1
                /\ last' = NoResponse
                /\ inflight' = [inflight EXCEPT ![GenerateSlot] =
                                   cur @@ [userID |-> userID]]

\* Lines 77-92: the access token, signed at the clock's reading now, and
\* the response.
GenerateSign ==
    LET cur == inflight[GenerateSlot]
        accessToken == GenerateAccessToken(cur.userID, cur.remote, JWTSecret,
                                           cur.newHash, now)
    IN  /\ cur.pc = "sign"
        /\ UNCHANGED <<users, tokens, now, nextToken>>
        /\ Return(GenerateSlot,
                  Response("generate", StatusOK, "json", accessToken,
                           cur.newRefresh, cur.userID, cur))
        /\ issued' = issued \cup {[access |-> accessToken,
                                   refresh |-> cur.newRefresh]}

\* Time passes; between the save and the signing of a GenerateTokens
\* request no more than the current second ends.
AdvanceClock(t) ==
    /\ inflight[GenerateSlot].pc = "sign" => t = now + 1
    /\ Advance(t)

NextClock ==
    \/ \E userID \in ValidUUIDs, remoteAddr \in Addrs :
          GenerateSave(userID, remoteAddr) /\ UNCHANGED <<boot, call>>
    \/ GenerateSign /\ UNCHANGED <<boot, call>>
    \/ \E p \in issued, q \in issued :
          /\ RefreshTokensHandler(RefreshSlot, p.access, q.refresh, "none")
          /\ UNCHANGED <<boot, call>>
    \/ RefreshGetLastIP(RefreshSlot, "none") /\ UNCHANGED <<boot, call>>
    \/ RefreshGetUserEmail(RefreshSlot, "none") /\ UNCHANGED <<boot, call>>
    \/ \E remoteAddr \in Addrs :
          /\ RefreshUpdate(RefreshSlot, remoteAddr, "none")
          /\ UNCHANGED <<boot, call>>
    \/ \E t \in ClockInstants : AdvanceClock(t) /\ UNCHANGED <<boot, call>>

SpecClock == InitRace /\ [][NextClock]_vars

\* The RefreshTokens request has just verified the presented refresh token
\* against the record r of its user.
Verified(r) ==
    /\ inflight[RefreshSlot].pc = "getLastIP"
    /\ inflight[RefreshSlot].ops = <<"GetRefreshToken">>
    /\ r \in RowsOf(tokens, inflight[RefreshSlot].access.sub)
    /\ r.refresh_token_hash = inflight[RefreshSlot].storedToken

C32_ClientAddressCarriedAlong ==
    /\ Generated
       => /\ last.access.ip = last.remote
          /\ \A r \in RowsOf(tokens, last.user_id) :
                r.ip_address = last.remote
    /\ Refreshed
       => /\ last.access.ip = last.reqAccess.ip
          /\ \A r \in RowsOf(tokens, last.user_id) :
                r.ip_address = last.reqAccess.ip
          /\ last.warned <=> last.lastIP /= last.reqAccess.ip

\* A refresh answered 200 to a request from another address than the one
\* in the ip claim, with no warning, and the stored address is the claim.
C32_RefreshedFromAnotherAddress ==
    /\ Refreshed
    /\ last.remote /= last.reqAccess.ip
    /\ ~last.warned
    /\ \E r \in RowsOf(tokens, last.user_id) :
          r.ip_address = last.access.ip /\ r.ip_address /= last.remote

\* ------------------------------------------------------------- two users
\* Table users holds the rows of two users; requests for either of them
\* are handled concurrently, and the save and the update may fail.
InitFrame ==
    /\ boot = Serving
    /\ call = NoCall
    /\ users = ValidUUIDs
    /\ tokens = {}
    /\ now = 0
    /\ nextToken = 1
    /\ issued = {}
    /\ inflight = [s \in RaceSlots |-> Idle]
    /\ last = NoResponse

NextFrame ==
    \/ \E userID \in ValidUUIDs, remoteAddr \in Addrs,
          fault \in {"none", "db", "encode"} :
          /\ GenerateTokensHandler(userID, remoteAddr, fault)
          /\ UNCHANGED <<boot, call>>
    \/ \E s \in RaceSlots, p \in issued, q \in issued :
          /\ RefreshTokensHandler(s, p.access, q.refresh, "none")
          /\ UNCHANGED <<boot, call>>
    \/ \E s \in RaceSlots :
          RefreshGetLastIP(s, "none") /\ UNCHANGED <<boot, call>>
    \/ \E s \in RaceSlots :
          RefreshGetUserEmail(s, "none") /\ UNCHANGED <<boot, call>>
    \/ \E s \in RaceSlots, fault \in UpdateFaults :
          RefreshUpdate(s, "ip1", fault) /\ UNCHANGED <<boot, call>>

SpecFrame == InitFrame /\ [][NextFrame]_vars

\* The records of every user but userID are in tbl2 as they are in tbl1.
OthersUntouched(tbl1, tbl2, userID) ==
    \A v \in ValidUUIDs \ {userID} : RowsOf(tbl2, v) = RowsOf(tbl1, v)

\* C33: a step of a GenerateTokens or RefreshTokens request concerning user
\* u leaves the record of every other user as it was, whatever its outcome,
\* and what it read, the stored hash and the stored address, is in the
\* record of u; each read of the storage for u returns what it returns
\* from the records of u alone.
C33_OtherUsersRecordsUntouched ==
    [][/\ \A u \in ValidUUIDs :
            /\ GetRefreshToken(tokens, u)
                  = GetRefreshToken(RowsOf(tokens, u), u)
            /\ GetLastIP(tokens, u) = GetLastIP(RowsOf(tokens, u), u)
       /\ last'.kind \in {"generate", "refresh"}
          => OthersUntouched(tokens, tokens', last'.user_id)
       /\ \A s \in RaceSlots :
            inflight'[s] /= inflight[s]
            => LET u == IF inflight[s].pc = "idle"
                        THEN inflight'[s].access.sub
                        ELSE inflight[s].access.sub
               IN  /\ OthersUntouched(tokens, tokens', u)
                   /\ inflight'[s].pc = "getLastIP"
                      => inflight'[s].storedToken \in
                           {r.refresh_token_hash : r \in RowsOf(tokens, u)}
                   /\ inflight[s].pc = "getLastIP"
                        /\ inflight'[s].pc \in {"getUserEmail", "update"}
                      => inflight'[s].lastIP \in
                           {r.ip_address : r \in RowsOf(tokens, u)}]_vars

\* A refresh for one user answered 200 while the other user has a record
\* with another hash and another address.
C33_RefreshedBesideAnotherUser ==
    /\ Refreshed
    /\ \E r \in RowsOf(tokens, last.user_id) :
          \E q \in tokens :
             /\ q.user_id /= r.user_id
             /\ q.ip_address /= r.ip_address
             /\ q.refresh_token_hash /= r.refresh_token_hash

\* ----------------------------------------------------------- termination
\* net/http runs each handler in a goroutine of its own, and each storage
\* call of it returns: a handler that has a step to take takes it.
RefreshStep(s) ==
    /\ \/ \E fault \in ReadFaults : RefreshGetLastIP(s, fault)
       \/ \E fault \in ReadFaults : RefreshGetUserEmail(s, fault)
       \/ \E remoteAddr \in Addrs, fault \in UpdateFaults :
             RefreshUpdate(s, remoteAddr, fault)
    /\ UNCHANGED <<boot, call>>

Fairness == \A s \in Slots : WF_vars(RefreshStep(s))

SpecLive == Init /\ [][Next]_vars /\ Fairness

\* C34: every handler invocation ends, and ends with one response: a
\* GenerateTokens response has status 200, 400 or 500, a RefreshTokens
\* response has status 200, 400, 401 or 500 and is written by the step
\* that ends the handler, a handler still running has written nothing, and
\* a handler that runs comes to its end.
C34_EveryInvocationAnswersOnce ==
    /\ [][/\ last'.kind = "generate"
             => /\ last'.status \in {StatusOK, StatusBadRequest,
                                     StatusInternalServerError}
                /\ inflight' = inflight
          /\ last'.kind = "refresh"
             => /\ last'.status \in {StatusOK, StatusBadRequest,
                                     StatusUnauthorized,
                                     StatusInternalServerError}
                /\ \E s \in Slots :
                      /\ inflight'[s] = Idle
                      /\ \A o \in Slots \ {s} : inflight'[o] = inflight[o]
          /\ \A s \in Slots :
                inflight'[s].pc /= "idle" /\ inflight'[s] /= inflight[s]
                => last' = NoResponse]_vars
    /\ \A s \in Slots :
          inflight[s].pc /= "idle" ~> inflight[s].pc = "idle"

\* A refresh that made its four storage calls, the last of which failed,
\* and answered 500.
C34_AnsweredAfterFourStorageCalls ==
    /\ last.kind = "refresh"
    /\ last.status = StatusInternalServerError
    /\ last.ops = <<"GetRefreshToken", "GetLastIP", "GetUserEmail",
                    "UpdateRefreshToken">>
====
